---- MODULE Spec2Model ----
(***************************************************************************)
(* River Measurement Visualization App (src/app.py), a Streamlit script.   *)
(*                                                                         *)
(* The script is executed top to bottom once per user interaction.  Its    *)
(* persistent state is st.session_state.num_points and                     *)
(* st.session_state.point_data.  One step of the model is one interaction: *)
(* the user changes one widget that is on the page (or just refreshes),    *)
(* the script runs, and every st.rerun() it raises is followed to the end. *)
(*                                                                         *)
(* Streamlit rules the model relies on:                                    *)
(*  - a widget returns the value the user gave it; a widget that is        *)
(*    created, or whose parameters changed, returns its `value=` argument; *)
(*    the state of a widget that a run did not render is dropped when the  *)
(*    run ends, st.rerun() included.  After every run that passes a site,  *)
(*    the stored fields equal the widget values, so a widget the user did  *)
(*    not touch returns its `value=` argument;                             *)
(*  - st.number_input raises when `value=` lies outside                    *)
(*    [min_value, max_value]; the uncaught exception ends the run;         *)
(*  - st.rerun() ends the run at once and starts a new one.                *)
(*                                                                         *)
(* Real numbers (Python floats) are exact rationals <<n, d>> in lowest     *)
(* terms, d > 0; float rounding is not modelled.                           *)
(***************************************************************************)
EXTENDS Integers, Sequences, FiniteSets, TLC

(* ------------------------------ bounds -------------------------------- *)
\* the widget of line 20 allows 0..20 sites; the model allows 0..MaxSites
MaxSites == 2
\* the widget of line 72 allows 2..20 measurements; the model 2..MaxMeas
MaxMeas == 3
\* interactions of one session
MaxSteps == 3
\* sites and measurements per site of the studies drawn for SpecViz
VizSites == 3
VizMeas == 4
\* script runs followed within one interaction (the first run and reruns)
MaxRuns == 3

(* ---------------------------- rationals ------------------------------- *)
Abs(a) == IF a < 0 THEN -a ELSE a

RECURSIVE GCD(_, _)
GCD(a, b) == IF b = 0 THEN a ELSE GCD(b, a % b)

\* the rational n/d (d # 0) in lowest terms with a positive denominator
Q(n, d) ==
  LET s == IF d < 0 THEN -1 ELSE 1
      g == GCD(Abs(n), Abs(d))
  IN  <<(s * n) \div g, (s * d) \div g>>

QAdd(a, b) == Q(a[1] * b[2] + b[1] * a[2], a[2] * b[2])
QNeg(a) == <<-a[1], a[2]>>
QSub(a, b) == QAdd(a, QNeg(b))
QMul(a, b) == Q(a[1] * b[1], a[2] * b[2])
QDiv(a, b) == Q(a[1] * b[2], a[2] * b[1])
QLe(a, b) == a[1] * b[2] <= b[1] * a[2]
QLt(a, b) == a[1] * b[2] < b[1] * a[2]
QMax(a, b) == IF QLt(a, b) THEN b ELSE a

Zero == Q(0, 1)

\* max(...) of a non-empty set of rationals
SetMax(S) == CHOOSE m \in S : \A x \in S : QLe(x, m)

\* max(seq) of a sequence of rationals; Python raises ValueError on an empty one
SeqMax(s) == SetMax({s[k] : k \in DOMAIN s})

(* --------------------------- input values ----------------------------- *)
\* what the user types: widths, distances and depths in metres, names
Widths == {Q(1, 2), Q(1, 1), Q(2, 1)}
UserDistances == {Q(0, 1), Q(1, 2), Q(1, 1)}
UserDepths == {Q(0, 1), Q(1, 2), Q(2, 1), Q(10, 1)}
UserNames == {"Upstream"}

(* ------------------------------ state --------------------------------- *)
VARIABLES
  num_points,  \* st.session_state.num_points
  point_data,  \* st.session_state.point_data: site index -> site record
  rendered,    \* the widgets the last run put on the page
  previews,    \* site index -> river bed trace of its cross-section preview
  view,        \* what the last run showed below the site tabs
  fig,         \* the composite visualization the last run built
  runs,        \* script runs of the last interaction
  steps,       \* interactions so far
  last_edit,   \* the widget change of the last interaction
  before       \* the session state the last interaction started from

vars == <<num_points, point_data, rendered, previews, view, fig, runs, steps,
          last_edit, before>>

\* point_data = {}
EmptyData == [k \in {} |-> 0]

\* f"Site {i+1}"
DefaultName(i) == "Site " \o ToString(i + 1)

\* the record of lines 46-52
DefaultSite(i) ==
  [width |-> Q(1, 1), num_measurements |-> 3, point_name |-> DefaultName(i),
   distances |-> <<>>, depths |-> <<>>]

(* ----------------------------- widgets -------------------------------- *)
\* a change of one widget: w names the widget kind, i the site, j the point
NoEdit == [w |-> "none", i |-> 0, j |-> 0, v |-> 0]

\* the value a widget returns in a run: the user's, else its value= argument
Widget(edit, w, i, j, value) ==
  IF edit.w = w /\ edit.i = i /\ edit.j = j THEN edit.v ELSE value

\* st.number_input raises when value= is outside [min_value, max_value]
NumberInputRaises(min_value, max_value, value) ==
  QLt(value, min_value) \/ QLt(max_value, value)

\* np.linspace(0, stop, num)[j]
Linspace(stop, num, j) ==
  IF j = num - 1 THEN stop ELSE QMul(stop, Q(j, num - 1))

(* ------------------------- one site's tab ----------------------------- *)
\* lines 45-52: the site gets its record the first time its tab runs
InitSite(i, pd) ==
  IF i \in DOMAIN pd THEN pd ELSE pd @@ (i :> DefaultSite(i))

\* lines 55-60: the name input, stored at once
StoreName(i, pd, edit) ==
  [pd EXCEPT ![i].point_name = Widget(edit, "name", i, 0, pd[i].point_name)]

\* lines 63-67: the width input
WidthInput(i, pd, edit) == Widget(edit, "width", i, 0, pd[i].width)

\* lines 70-74: the measurement-count input
NumMeasurementsInput(i, pd, edit) ==
  Widget(edit, "num", i, 0, pd[i].num_measurements)

\* a change test that finds the measurement count changed in every run
AlwaysChanged(i, pd, num_measurements) == TRUE

\* lines 77-78
WidthChanged(i, pd, width) == width # pd[i].width
MeasurementsChanged(i, pd, num_measurements) ==
  num_measurements # pd[i].num_measurements

\* a reset that empties the arrays of every site
ResetAllArrays(i, pd, measurements_changed) ==
  IF measurements_changed
  THEN [k \in DOMAIN pd |-> [pd[k] EXCEPT !.distances = <<>>, !.depths = <<>>]]
  ELSE pd

\* lines 86-89: a changed measurement count empties the arrays
ResetArrays(i, pd, measurements_changed) ==
  IF measurements_changed
  THEN [pd EXCEPT ![i].distances = <<>>, ![i].depths = <<>>]
  ELSE pd

\* a store that empties the arrays on a change of width as well
StoreAndReset(i, pd, width, num_measurements) ==
  IF WidthChanged(i, pd, width)
       \/ MeasurementsChanged(i, pd, num_measurements)
  THEN ResetArrays(i,
         [pd EXCEPT ![i].width = width,
                    ![i].num_measurements = num_measurements],
         TRUE)
  ELSE pd

\* lines 81-89: what a change of width or measurement count stores
StoreChanges(i, pd, width, num_measurements) ==
  IF WidthChanged(i, pd, width)
       \/ MeasurementsChanged(i, pd, num_measurements)
  THEN ResetArrays(i,
         [pd EXCEPT ![i].width = width,
                    ![i].num_measurements = num_measurements],
         MeasurementsChanged(i, pd, num_measurements))
  ELSE pd

\* a distance input that always starts from the even spacing
LinspaceDefault(site, width, num_measurements, j) ==
  Linspace(width, num_measurements, j)

\* value= of the j-th distance input (lines 101-106), j counted from 0
DistanceDefault(site, width, num_measurements, j) ==
  IF j < Len(site.distances) THEN site.distances[j + 1]
  ELSE Linspace(width, num_measurements, j)

\* value= of the j-th depth input (lines 120-122)
DepthDefault(site, j) ==
  IF j < Len(site.depths) THEN site.depths[j + 1] ELSE Zero

\* a distances list that holds only what was stored before the run
StoredDistances(i, site, width, num_measurements, edit) == site.distances

\* lines 98-114: the distances list the inputs return
DistanceInputs(i, site, width, num_measurements, edit) ==
  [k \in 1 .. num_measurements |->
     Widget(edit, "dist", i, k - 1,
            DistanceDefault(site, width, num_measurements, k - 1))]

\* a depths list that holds only what was stored before the run
StoredDepths(i, site, num_measurements, edit) == site.depths

\* lines 118-130: the depths list the inputs return
DepthInputs(i, site, num_measurements, edit) ==
  [k \in 1 .. num_measurements |->
     Widget(edit, "depth", i, k - 1, DepthDefault(site, k - 1))]

\* the distance inputs whose value= is outside [0, width] (lines 108-113)
BadDistances(site, width, num_measurements) ==
  {j \in 0 .. (num_measurements - 1) :
     NumberInputRaises(Zero, width,
                       DistanceDefault(site, width, num_measurements, j))}

\* the depth inputs whose value= is outside [0, 10] (lines 124-129)
BadDepths(site, num_measurements) ==
  {j \in 0 .. (num_measurements - 1) :
     NumberInputRaises(Zero, Q(10, 1), DepthDefault(site, j))}

\* the least element of a non-empty set of numbers
First(S) == CHOOSE j \in S : \A k \in S : j <= k

\* the widgets a tab renders: its three head inputs, nd distance inputs and
\* np depth inputs
TabKeys(i, nd, np) ==
  {<<"name", i, 0>>, <<"width", i, 0>>, <<"num", i, 0>>}
    \cup {<<"dist", i, j>> : j \in 0 .. (nd - 1)}
    \cup {<<"depth", i, j>> : j \in 0 .. (np - 1)}

\* the River Bed trace of the cross-section preview (lines 165-173)
PreviewRiverBed(distances, depths) ==
  [x |-> distances, y |-> [k \in DOMAIN depths |-> QNeg(depths[k])]]

\* lines 92-237: the measurement inputs of site i, the write-back of lines
\* 133-134 and the preview; pd holds what lines 45-89 stored
Measurements(i, pd, width, num_measurements, edit) ==
  IF BadDistances(pd[i], width, num_measurements) # {}
  THEN [out |-> "raise", pd |-> pd,
        keys |-> TabKeys(i,
                   First(BadDistances(pd[i], width, num_measurements)), 0),
        preview |-> <<>>]
  ELSE IF BadDepths(pd[i], num_measurements) # {}
  THEN [out |-> "raise", pd |-> pd,
        keys |-> TabKeys(i, num_measurements,
                         First(BadDepths(pd[i], num_measurements))),
        preview |-> <<>>]
  ELSE [out |-> "ok",
        pd |-> [pd EXCEPT
                  ![i].distances =
                     DistanceInputs(i, pd[i], width, num_measurements, edit),
                  ![i].depths =
                     DepthInputs(i, pd[i], num_measurements, edit)],
        keys |-> TabKeys(i, num_measurements, num_measurements),
        preview |->
          <<PreviewRiverBed(
              DistanceInputs(i, pd[i], width, num_measurements, edit),
              DepthInputs(i, pd[i], num_measurements, edit))>>]

\* lines 62-237 on pd, which holds the site's record and its name
TabBody(i, pd, width, num_measurements, edit) ==
  IF MeasurementsChanged(i, pd, num_measurements)
  THEN [out |-> "rerun",
        pd |-> StoreChanges(i, pd, width, num_measurements),
        keys |-> TabKeys(i, 0, 0), preview |-> <<>>]
  ELSE Measurements(i, StoreChanges(i, pd, width, num_measurements),
                    width, num_measurements, edit)

\* lines 42-60, then the rest of the tab with the two inputs' values
TabInputs(i, pd, edit) ==
  TabBody(i, pd, WidthInput(i, pd, edit), NumMeasurementsInput(i, pd, edit),
          edit)

\* lines 42-237: the body of the tab of site i, run on point_data pd0.
\* out is "ok" (the tab ran to its end), "rerun" (st.rerun() of line 90) or
\* "raise" (a number_input refused its value=)
SiteTab(i, pd0, edit) == TabInputs(i, StoreName(i, InitSite(i, pd0), edit), edit)

\* the loop of line 40 from site i on: the tabs run in order and the first
\* st.rerun() or exception ends the run
RECURSIVE SiteTabs(_, _, _, _, _, _)
RECURSIVE AfterTab(_, _, _, _, _, _)
SiteTabs(i, n, pd, edit, keys, pv) ==
  IF i = n THEN [out |-> "ok", pd |-> pd, keys |-> keys, previews |-> pv]
  ELSE AfterTab(i, n, SiteTab(i, pd, edit), edit, keys, pv)

AfterTab(i, n, t, edit, keys, pv) ==
  IF t.out = "ok"
  THEN SiteTabs(i + 1, n, t.pd, edit, keys \cup t.keys,
                pv @@ (i :> t.preview[1]))
  ELSE [out |-> t.out, pd |-> t.pd, keys |-> keys \cup t.keys,
        previews |-> pv]

(* ---------------------- the visualization tab -------------------------- *)
\* line 264
num_interp_points == 30
\* line 448
n_bottom_points == 10

\* line 259: 0.5
bank_height == Q(1, 2)

\* a guard that lets every session state through
NoGuard(np, pd) == TRUE

\* line 243: every site has at least one depth
AllDepthsRecorded(np, pd) == \A i \in 0 .. (np - 1) : Len(pd[i].depths) > 0

\* np.linspace(0, stop, num) as a sequence
LinspaceSeq(stop, num) == [k \in 1 .. num |-> Linspace(stop, num, k - 1)]

\* the (x, y) pairs in the stable ascending order of x that interp1d puts
\* them in (np.argsort(x, kind="mergesort")): pair q goes after every pair
\* of sorted whose x is not greater
RECURSIVE InsertKnot(_, _)
InsertKnot(sorted, q) ==
  IF sorted = <<>> THEN <<q>>
  ELSE IF QLt(q[1], sorted[Len(sorted)][1])
       THEN Append(InsertKnot(SubSeq(sorted, 1, Len(sorted) - 1), q),
                   sorted[Len(sorted)])
       ELSE Append(sorted, q)

RECURSIVE SortKnots(_, _, _)
SortKnots(xs, ys, n) ==
  IF n = 0 THEN <<>>
  ELSE InsertKnot(SortKnots(xs, ys, n - 1), <<xs[n], ys[n]>>)

\* interp1d refuses repeated x for a spline (make_interp_spline)
HasDuplicates(xs) == \E a, b \in DOMAIN xs : a # b /\ xs[a] = xs[b]

\* a computed elevation: a number, a non-finite float (nan or inf), or a
\* value of the cubic spline, which the model does not compute
Num(q) == [tag |-> "num", v |-> q]
NonFinite == [tag |-> "nonfinite", v |-> Zero]
SplineAt(x) == [tag |-> "spline", v |-> x]

\* searchsorted(x, x_new) clipped to [1, len(x) - 1]: the upper knot of the
\* segment that serves x_new
ClipSegment(idx, n) ==
  IF idx < 1 THEN 1 ELSE IF idx > n - 1 THEN n - 1 ELSE idx

\* the line through knots lo and hi at x, negated (line 285); a segment of
\* zero length divides by zero
NegLineAt(lo, hi, x) ==
  IF hi[1] = lo[1] THEN NonFinite
  ELSE Num(QNeg(QAdd(QMul(QDiv(QSub(hi[2], lo[2]), QSub(hi[1], lo[1])),
                          QSub(x, lo[1])), lo[2])))

\* the segment with upper knot number hi, counted from 0
SegmentAt(knots, hi, x) == NegLineAt(knots[hi], knots[hi + 1], x)

\* -interpolator(x) for kind='linear', fill_value="extrapolate", on the
\* sorted knots
LinearAt(knots, x) ==
  SegmentAt(knots,
            ClipSegment(Cardinality({r \in DOMAIN knots : QLt(knots[r][1], x)}),
                        Len(knots)),
            x)

\* a kind that turns to the spline from three points on
CubicFromThree(x_vals) == IF Len(x_vals) >= 3 THEN "cubic" ELSE "linear"

\* line 282
InterpKind(x_vals) == IF Len(x_vals) > 3 THEN "cubic" ELSE "linear"

\* lines 280-287: which branch computes the elevations of a site
InterpBranch(x_vals) == IF Len(x_vals) >= 2 THEN "interp1d" ELSE "flat"

\* lines 280-285 raise ValueError when the cubic spline is given repeated x
RiverBedRaises(site) ==
  /\ InterpBranch(site.distances) = "interp1d"
  /\ InterpKind(site.distances) = "cubic"
  /\ HasDuplicates(site.distances)

\* line 285 on every point of x_interp, linear kind
LinearZ(knots, x_interp) ==
  [k \in 1 .. num_interp_points |-> LinearAt(knots, x_interp[k])]

\* elevations taken at the measured points only, one per input point
InterpAtKnots(x_vals, depths, x_interp) ==
  [k \in DOMAIN x_vals |-> Num(QNeg(depths[k]))]

\* lines 280-287: the elevations of one site along x_interp
InterpZ(x_vals, depths, x_interp) ==
  IF InterpBranch(x_vals) = "interp1d"
  THEN IF InterpKind(x_vals) = "cubic"
       THEN [k \in 1 .. num_interp_points |-> SplineAt(x_interp[k])]
       ELSE LinearZ(SortKnots(x_vals, depths, Len(x_vals)), x_interp)
  ELSE [k \in 1 .. num_interp_points |-> Num(QNeg(depths[1]))]

\* lines 272-291: one row of the river bed surface
RiverBedRow(i, site) ==
  [branch |-> InterpBranch(site.distances),
   kind |-> InterpKind(site.distances),
   x |-> LinspaceSeq(site.width, num_interp_points),
   y |-> [k \in 1 .. num_interp_points |-> i],
   z |-> InterpZ(site.distances, site.depths,
                 LinspaceSeq(site.width, num_interp_points))]

\* the greatest depth of the whole study, whatever the pair
MaxDepthStudy(pd, i) == SetMax({SeqMax(pd[k].depths) : k \in DOMAIN pd})

\* lines 334: the greater of the two adjacent sites' maximum depths
MaxDepthSection(pd, i) == QMax(SeqMax(pd[i].depths), SeqMax(pd[i + 1].depths))

\* line 344: the width at fraction y_frac between site i and site i+1
WidthAt(pd, i, y_frac) ==
  QAdd(pd[i].width, QMul(QSub(pd[i + 1].width, pd[i].width), y_frac))

\* lines 335, 396, 445: the floor of the banks and of the bottom
BankFloor(pd, i) == QNeg(QMul(MaxDepthSection(pd, i), Q(12, 10)))

\* the y fractions of the bank strips (3 rows) and of the bottom (2 rows)
BankFracs == <<Q(0, 1), Q(1, 2), Q(1, 1)>>
BottomFracs == <<Q(0, 1), Q(1, 1)>>

\* the z of one row of a bank strip: the bank's top, then its floor
BankZ(floor) ==
  <<Zero, QMul(bank_height, Q(7, 10)), bank_height, floor, floor, floor>>

\* lines 336-376: the left bank strip between site i and site i+1, 3 x 6
LeftBank(pd, i, bank_extension) ==
  [x |-> [r \in 1 .. 3 |->
            <<Zero, QNeg(QDiv(bank_extension, Q(2, 1))),
              QNeg(bank_extension), QNeg(bank_extension),
              QNeg(QDiv(bank_extension, Q(2, 1))), Zero>>],
   y |-> [r \in 1 .. 3 |-> [c \in 1 .. 6 |-> QAdd(Q(i, 1), BankFracs[r])]],
   z |-> [r \in 1 .. 3 |-> BankZ(BankFloor(pd, i))]]

\* one row of the right bank's x: out from the water's edge w and back
RightBankX(w, bank_extension) ==
  <<w, QAdd(w, QDiv(bank_extension, Q(2, 1))), QAdd(w, bank_extension),
    QAdd(w, bank_extension), QAdd(w, QDiv(bank_extension, Q(2, 1))), w>>

\* lines 389-425: the right bank strip, mirrored at the width at each fraction
RightBank(pd, i, bank_extension) ==
  [x |-> [r \in 1 .. 3 |->
            RightBankX(WidthAt(pd, i, BankFracs[r]), bank_extension)],
   y |-> [r \in 1 .. 3 |-> [c \in 1 .. 6 |-> QAdd(Q(i, 1), BankFracs[r])]],
   z |-> [r \in 1 .. 3 |-> BankZ(BankFloor(pd, i))]]

\* lines 438-459: the bottom strip under the river, 2 x 10
Bottom(pd, i) ==
  [x |-> [r \in 1 .. 2 |->
            [c \in 1 .. n_bottom_points |->
               QMul(Q(c - 1, n_bottom_points - 1),
                    WidthAt(pd, i, BottomFracs[r]))]],
   y |-> [r \in 1 .. 2 |->
            [c \in 1 .. n_bottom_points |-> QAdd(Q(i, 1), BottomFracs[r])]],
   z |-> [r \in 1 .. 2 |->
            [c \in 1 .. n_bottom_points |-> BankFloor(pd, i)]]]

\* a water surface that spans the greatest width of the study in every row
WaterSurfaceMaxWidth(np, pd) ==
  [x |-> [r \in 1 .. np |->
            LinspaceSeq(SetMax({pd[k].width : k \in 0 .. (np - 1)}),
                        num_interp_points)],
   y |-> [r \in 1 .. np |-> [k \in 1 .. num_interp_points |-> r - 1]],
   z |-> [r \in 1 .. np |-> [k \in 1 .. num_interp_points |-> Zero]]]

\* lines 472-487: the water surface, one row per site over its own width
WaterSurface(np, pd) ==
  [x |-> [r \in 1 .. np |-> LinspaceSeq(pd[r - 1].width, num_interp_points)],
   y |-> [r \in 1 .. np |-> [k \in 1 .. num_interp_points |-> r - 1]],
   z |-> [r \in 1 .. np |-> [k \in 1 .. num_interp_points |-> Zero]]]

\* concatenation from the last sequence to the first
RECURSIVE FlattenBackwards(_)
FlattenBackwards(ss) ==
  IF ss = <<>> THEN <<>> ELSE FlattenBackwards(Tail(ss)) \o Head(ss)

\* concatenation of a sequence of sequences
RECURSIVE Flatten(_)
Flatten(ss) == IF ss = <<>> THEN <<>> ELSE Head(ss) \o Flatten(Tail(ss))

\* zip(distances, depths) stops at the shorter of the two
ZipLen(site) ==
  IF Len(site.distances) < Len(site.depths) THEN Len(site.distances)
  ELSE Len(site.depths)

\* lines 501-521: one marker per measured point
Markers(np, pd) ==
  Flatten([r \in 1 .. np |->
             [k \in 1 .. ZipLen(pd[r - 1]) |->
                [x |-> pd[r - 1].distances[k], y |-> r - 1,
                 z |-> QNeg(pd[r - 1].depths[k])]]])

\* labels placed on the outer edge of the right bank, at the bank's top
LabelsAtBank(np, pd, max_width, bank_extension) ==
  [r \in 1 .. np |->
     [x |-> QAdd(max_width, bank_extension), y |-> r - 1,
      z |-> bank_height, text |-> pd[r - 1].point_name]]

\* lines 523-536: one text label per site
Labels(np, pd, max_width, bank_extension) ==
  [r \in 1 .. np |->
     [x |-> QAdd(QAdd(max_width, bank_extension), Q(1, 2)), y |-> r - 1,
      z |-> QDiv(bank_height, Q(2, 1)), text |-> pd[r - 1].point_name]]

\* a riverbed trace drawn in ascending order of distance
SortedRiverbed(site) ==
  [x |-> [k \in DOMAIN site.distances |->
            SortKnots(site.distances, site.depths, Len(site.distances))[k][1]],
   y |-> [k \in DOMAIN site.depths |->
            QNeg(SortKnots(site.distances, site.depths,
                           Len(site.distances))[k][2])]]

\* lines 618-631: the Riverbed trace of site i in the all-cross-sections chart
SectionRiverbed(site) ==
  [x |-> site.distances,
   y |-> [k \in DOMAIN site.depths |-> QNeg(site.depths[k])]]

\* lines 716-727: the rows of the table and of the CSV
TableData(np, pd) ==
  Flatten([r \in 1 .. np |->
             [k \in 1 .. Len(pd[r - 1].distances) |->
                [site_number |-> r, site_name |-> pd[r - 1].point_name,
                 point_number |-> k, distance |-> pd[r - 1].distances[k],
                 depth |-> pd[r - 1].depths[k]]]])

\* lines 244-740 raise when max() gets an empty depths list (lines 246, 334)
\* or when interp1d refuses a site's distances
CompositeRaises(np, pd) ==
  \/ \E i \in 0 .. (np - 1) : Len(pd[i].depths) = 0
  \/ np >= 2 /\ \E i \in 0 .. (np - 1) : RiverBedRaises(pd[i])

\* line 245
MaxWidth(np, pd) == SetMax({pd[i].width : i \in 0 .. (np - 1)})

\* line 246
MaxDepthOverall(np, pd) == SetMax({SeqMax(pd[i].depths) : i \in 0 .. (np - 1)})

\* line 258
BankExtension(np, pd) == QMul(MaxWidth(np, pd), Q(1, 2))

\* lines 266-321: the river bed surface, one row per site
RiverBed(np, pd) ==
  [x |-> [r \in 1 .. np |-> RiverBedRow(r - 1, pd[r - 1]).x],
   y |-> [r \in 1 .. np |-> RiverBedRow(r - 1, pd[r - 1]).y],
   z |-> [r \in 1 .. np |-> RiverBedRow(r - 1, pd[r - 1]).z],
   branch |-> [r \in 1 .. np |-> RiverBedRow(r - 1, pd[r - 1]).branch],
   kind |-> [r \in 1 .. np |-> RiverBedRow(r - 1, pd[r - 1]).kind]]

\* lines 244-740: the composite visualization; the surfaces of lines 262-487
\* exist for two sites or more
Composite(np, pd) ==
  [built |-> TRUE,
   max_width |-> MaxWidth(np, pd),
   max_depth_overall |-> MaxDepthOverall(np, pd),
   bank_extension |-> BankExtension(np, pd),
   river |-> IF np >= 2 THEN <<RiverBed(np, pd)>> ELSE <<>>,
   left |-> IF np >= 2
            THEN [r \in 1 .. (np - 1) |->
                    LeftBank(pd, r - 1, BankExtension(np, pd))]
            ELSE <<>>,
   right |-> IF np >= 2
             THEN [r \in 1 .. (np - 1) |->
                     RightBank(pd, r - 1, BankExtension(np, pd))]
             ELSE <<>>,
   bottom |-> IF np >= 2 THEN [r \in 1 .. (np - 1) |-> Bottom(pd, r - 1)]
              ELSE <<>>,
   water |-> IF np >= 2 THEN <<WaterSurface(np, pd)>> ELSE <<>>,
   markers |-> Markers(np, pd),
   labels |-> Labels(np, pd, MaxWidth(np, pd), BankExtension(np, pd)),
   sections |-> [r \in 1 .. np |-> SectionRiverbed(pd[r - 1])],
   table |-> TableData(np, pd)]

\* lines 240-742: what the visualization tab shows: the composite when every
\* site has a depth, else the message of line 742
VisualizationTab(np, pd) ==
  IF AllDepthsRecorded(np, pd)
  THEN IF CompositeRaises(np, pd) THEN "exception" ELSE "composite"
  ELSE "placeholder"

\* the figure of a run that built none
NoFig == [built |-> FALSE]

\* a page that builds the composite figure for two sites or more only
FigureFromTwoSites(np, pd, shown) ==
  IF shown = "composite" /\ np >= 2 THEN Composite(np, pd) ELSE NoFig

\* the figure a run leaves on the page
Figure(np, pd, shown) == IF shown = "composite" THEN Composite(np, pd) ELSE NoFig

(* --------------------------- one script run --------------------------- *)
\* the site-count input of lines 19-20 has no key
NumPointsKey == <<"num_points", 0, 0>>

\* a site-count change that leaves the site records in place
KeepData(pd) == pd

\* line 32: point_data = {}
ResetData(pd) == EmptyData

\* lines 35-742 once the tabs of the sites have run
AfterTabs(np, tabs) ==
  [num_points |-> np, point_data |-> tabs.pd, out |-> tabs.out,
   rendered |-> tabs.keys, previews |-> tabs.previews,
   view |-> IF tabs.out = "ok" THEN VisualizationTab(np, tabs.pd)
            ELSE IF tabs.out = "rerun" THEN "rerun"
            ELSE "exception"]

\* lines 22-742 with the value num_points the input of lines 19-20 returned
ScriptFrom(num_points_in, np0, pd0, edit) ==
  IF num_points_in # np0
  THEN [num_points |-> num_points_in, point_data |-> ResetData(pd0),
        out |-> "rerun", rendered |-> {NumPointsKey},
        previews |-> EmptyData, view |-> "rerun"]
  ELSE IF np0 > 0
  THEN AfterTabs(np0, SiteTabs(0, np0, pd0, edit, {NumPointsKey}, EmptyData))
  ELSE [num_points |-> np0, point_data |-> pd0, out |-> "ok",
        rendered |-> {NumPointsKey}, previews |-> EmptyData,
        view |-> "empty"]

\* lines 12-742, run on session state (np0, pd0) with the widget change edit
Script(np0, pd0, edit) ==
  ScriptFrom(Widget(edit, "num_points", 0, 0, np0), np0, pd0, edit)

\* a run and the reruns it asks for; the widgets keep the user's values
RECURSIVE Settle(_, _, _, _)
RECURSIVE AfterRun(_, _, _)
Settle(np, pd, edit, n) == AfterRun(Script(np, pd, edit), edit, n)

AfterRun(r, edit, n) ==
  IF r.out = "rerun" /\ n < MaxRuns
  THEN Settle(r.num_points, r.point_data, edit, n + 1)
  ELSE [run |-> r, runs |-> n]

\* one interaction: the user's change, the run and its reruns
Interact(edit) ==
  /\ steps < MaxSteps
  /\ \E s \in {Settle(num_points, point_data, edit, 1)} :
       /\ num_points' = s.run.num_points
       /\ point_data' = s.run.point_data
       /\ rendered' = s.run.rendered
       /\ previews' = s.run.previews
       /\ view' = s.run.view
       /\ runs' = s.runs
  /\ fig' = NoFig
  /\ steps' = steps + 1
  /\ last_edit' = edit
  /\ before' = [num_points |-> num_points, point_data |-> point_data]

(* ----------------------------- the user ------------------------------- *)
SetNumPoints ==
  \E n \in 0 .. MaxSites :
    /\ NumPointsKey \in rendered
    /\ n # num_points
    /\ Interact([w |-> "num_points", i |-> 0, j |-> 0, v |-> n])

SetName ==
  \E i \in 0 .. (MaxSites - 1) : \E v \in UserNames \cup {DefaultName(i)} :
    /\ <<"name", i, 0>> \in rendered
    /\ v # point_data[i].point_name
    /\ Interact([w |-> "name", i |-> i, j |-> 0, v |-> v])

\* min_value=0.1
SetWidth ==
  \E i \in 0 .. (MaxSites - 1) : \E v \in Widths :
    /\ <<"width", i, 0>> \in rendered
    /\ QLe(Q(1, 10), v)
    /\ v # point_data[i].width
    /\ Interact([w |-> "width", i |-> i, j |-> 0, v |-> v])

\* min_value=2, max_value=20
SetNumMeasurements ==
  \E i \in 0 .. (MaxSites - 1) : \E v \in 2 .. MaxMeas :
    /\ <<"num", i, 0>> \in rendered
    /\ v # point_data[i].num_measurements
    /\ Interact([w |-> "num", i |-> i, j |-> 0, v |-> v])

\* min_value=0.0, max_value=float(width)
SetDistance ==
  \E i \in 0 .. (MaxSites - 1) : \E j \in 0 .. (MaxMeas - 1) :
    \E v \in UserDistances :
      /\ <<"dist", i, j>> \in rendered
      /\ QLe(Zero, v) /\ QLe(v, point_data[i].width)
      /\ v # point_data[i].distances[j + 1]
      /\ Interact([w |-> "dist", i |-> i, j |-> j, v |-> v])

\* min_value=0.0, max_value=10.0
SetDepth ==
  \E i \in 0 .. (MaxSites - 1) : \E j \in 0 .. (MaxMeas - 1) :
    \E v \in UserDepths :
      /\ <<"depth", i, j>> \in rendered
      /\ QLe(Zero, v) /\ QLe(v, Q(10, 1))
      /\ v # point_data[i].depths[j + 1]
      /\ Interact([w |-> "depth", i |-> i, j |-> j, v |-> v])

\* a rerun with no widget changed
Refresh == Interact(NoEdit)

\* the first run of a session: lines 13-16 create the state, N = 0 shows no tab
Init ==
  /\ num_points = 0
  /\ point_data = EmptyData
  /\ rendered = {NumPointsKey}
  /\ previews = EmptyData
  /\ view = "empty"
  /\ fig = NoFig
  /\ runs = 1
  /\ steps = 0
  /\ last_edit = NoEdit
  /\ before = [num_points |-> 0, point_data |-> EmptyData]

Next ==
  \/ SetNumPoints
  \/ SetName
  \/ SetWidth
  \/ SetNumMeasurements
  \/ SetDistance
  \/ SetDepth
  \/ Refresh

\* a session from its first run on, MaxSteps interactions long; the composite
\* figure is followed in SpecViz
Spec == Init /\ [][Next]_vars

(* ------------------- the page of a recorded study --------------------- *)
\* the studies a session can hold once its inputs are filled in: n sites,
\* site i with StudyCount points laid out and measured after a pattern
StudyLayouts == {"even", "same", "reversed", "inner"}
StudyProfiles == {"const", "ramp"}
StudyPatterns == {"equal", "rising", "falling"}

\* the measurement count of site i: the counts 2 .. VizMeas in turn from n0
StudyCount(n0, i) == 2 + ((n0 - 2 + i) % (VizMeas - 1))

\* the width of site i of n
StudyWidth(pattern, i, n) ==
  IF pattern = "equal" THEN Q(1, 1)
  ELSE IF pattern = "rising" THEN Q(2 + i, 2)
  ELSE Q(1 + n - i, 2)

\* the greatest depth scale of site i of n
StudyScale(pattern, i, n) ==
  IF pattern = "equal" THEN Q(1, 1)
  ELSE IF pattern = "rising" THEN Q(1 + i, 2)
  ELSE Q(n - i, 2)

\* the distances typed into the inputs of lines 108-113: evenly spaced from
\* bank to bank, all at the bank, evenly spaced from the far bank back, or
\* evenly spaced over the near half of the width only
StudyDistances(layout, width, count) ==
  [k \in 1 .. count |->
     IF layout = "even" THEN Linspace(width, count, k - 1)
     ELSE IF layout = "same" THEN Zero
     ELSE IF layout = "reversed" THEN Linspace(width, count, count - k)
     ELSE Linspace(QDiv(width, Q(2, 1)), count, k - 1)]

\* the depths typed into the inputs of lines 124-129: one depth everywhere,
\* or deepening from the bank
StudyDepths(profile, scale, count) ==
  [k \in 1 .. count |->
     IF profile = "const" THEN scale ELSE QMul(scale, Q(k - 1, 1))]

StudySite(i, n, n0, layout, profile, wpat, dpat) ==
  [width |-> StudyWidth(wpat, i, n),
   num_measurements |-> StudyCount(n0, i),
   point_name |-> DefaultName(i),
   distances |-> StudyDistances(layout, StudyWidth(wpat, i, n),
                                StudyCount(n0, i)),
   depths |-> StudyDepths(profile, StudyScale(dpat, i, n), StudyCount(n0, i))]

Study(n, n0, layout, profile, wpat, dpat) ==
  [i \in 0 .. (n - 1) |-> StudySite(i, n, n0, layout, profile, wpat, dpat)]

\* a session that holds a study, as its next run begins
InitViz ==
  /\ num_points \in 1 .. VizSites
  /\ \E n0 \in 2 .. VizMeas : \E layout \in StudyLayouts :
       \E profile \in StudyProfiles : \E wpat, dpat \in StudyPatterns :
         point_data = Study(num_points, n0, layout, profile, wpat, dpat)
  /\ rendered = {}
  /\ previews = EmptyData
  /\ view = "rerun"
  /\ fig = NoFig
  /\ runs = 0
  /\ steps = 0
  /\ last_edit = NoEdit
  /\ before = [num_points |-> num_points, point_data |-> point_data]

\* lines 12-742 with no widget changed: the page and its figure
Render ==
  /\ runs = 0
  /\ \E r \in {Script(num_points, point_data, NoEdit)} :
       /\ num_points' = r.num_points
       /\ point_data' = r.point_data
       /\ rendered' = r.rendered
       /\ previews' = r.previews
       /\ view' = r.view
       /\ fig' = Figure(r.num_points, r.point_data, r.view)
  /\ runs' = 1
  /\ UNCHANGED <<steps, last_edit, before>>

NextViz == Render

SpecViz == InitViz /\ [][NextViz]_vars

(* ------------- the visualization tab on any session state ------------- *)
\* the arrays a site record can hold when line 243 reads it: none yet
\* (lines 50-51, 88-89) or one value per measurement (lines 133-134)
GuardArrays ==
  {[distances |-> <<>>, depths |-> <<>>],
   [distances |-> <<Q(0, 1), Q(1, 1)>>, depths |-> <<Q(0, 1), Q(0, 1)>>],
   [distances |-> <<Q(0, 1), Q(1, 1)>>, depths |-> <<Q(1, 2), Q(2, 1)>>],
   [distances |-> <<Q(0, 1), Q(1, 2), Q(1, 1)>>,
    depths |-> <<Q(0, 1), Q(2, 1), Q(1, 2)>>],
   [distances |-> <<Q(0, 1), Q(1, 2), Q(1, 1)>>,
    depths |-> <<Q(10, 1), Q(0, 1), Q(0, 1)>>]}

GuardSite(i, a) ==
  [width |-> Q(1, 1),
   num_measurements |-> IF Len(a.distances) = 0 THEN 3 ELSE Len(a.distances),
   point_name |-> DefaultName(i),
   distances |-> a.distances,
   depths |-> a.depths]

\* session states as line 243 may be handed them
InitGuard ==
  /\ num_points \in 1 .. VizSites
  /\ \E arrays \in [0 .. (num_points - 1) -> GuardArrays] :
       point_data = [i \in 0 .. (num_points - 1) |-> GuardSite(i, arrays[i])]
  /\ rendered = {}
  /\ previews = EmptyData
  /\ view = "rerun"
  /\ fig = NoFig
  /\ runs = 0
  /\ steps = 0
  /\ last_edit = NoEdit
  /\ before = [num_points |-> num_points, point_data |-> point_data]

\* lines 240-742 on the session state as it is
ShowVisualization ==
  /\ runs = 0
  /\ view' = VisualizationTab(num_points, point_data)
  /\ fig' = Figure(num_points, point_data,
                   VisualizationTab(num_points, point_data))
  /\ runs' = 1
  /\ UNCHANGED <<num_points, point_data, rendered, previews, steps, last_edit,
                 before>>

NextGuard == ShowVisualization

SpecGuard == InitGuard /\ [][NextGuard]_vars

(* ---------------------------- properties ------------------------------ *)
\* what a site record holds once its tab has run on the defaults of lines
\* 46-52: width 1.0, 3 measurements evenly spaced, depths 0.0
FreshSite(i) ==
  [width |-> <<1, 1>>, num_measurements |-> 3,
   point_name |-> "Site " \o ToString(i + 1),
   distances |-> <<<<0, 1>>, <<1, 2>>, <<1, 1>>>>,
   depths |-> <<<<0, 1>>, <<0, 1>>, <<0, 1>>>>]

\* C1: once the number of sites has been set to a different value and the
\* rerun it requests has run, the study has exactly the sites 0..N-1 and each
\* holds the defaults (name "Site {i+1}", width 1.0, 3 measurements): nothing
\* entered before the change survives
C1_SiteCountChangeDiscardsData ==
  last_edit.w = "num_points" =>
    /\ num_points = last_edit.v
    /\ DOMAIN point_data = 0 .. (num_points - 1)
    /\ \A i \in 0 .. (num_points - 1) : point_data[i] = FreshSite(i)

\* a site count set anew over a study whose first site had been edited
C1_Witness ==
  /\ last_edit.w = "num_points"
  /\ runs = 2
  /\ num_points >= 1
  /\ before.num_points >= 1
  /\ before.point_data[0] # FreshSite(0)
  /\ point_data[0] = FreshSite(0)

\* C2: changing the measurement count of site i empties the distances and
\* depths of site i only (the rerun refills them with the defaults for the
\* new count); name and width of site i stay, and every other site keeps its
\* name, width, measurement count, distances and depths
C2_MeasurementCountFrame ==
  last_edit.w = "num" =>
    /\ \A k \in DOMAIN before.point_data :
         k # last_edit.i =>
           k \in DOMAIN point_data /\ point_data[k] = before.point_data[k]
    /\ point_data[last_edit.i].num_measurements = last_edit.v
    /\ point_data[last_edit.i].point_name
         = before.point_data[last_edit.i].point_name
    /\ point_data[last_edit.i].width = before.point_data[last_edit.i].width
    /\ point_data[last_edit.i].distances
         = [k \in 1 .. last_edit.v |->
              Linspace(point_data[last_edit.i].width, last_edit.v, k - 1)]
    /\ point_data[last_edit.i].depths = [k \in 1 .. last_edit.v |-> Zero]

\* the measurement count of one site changed while another site held values
\* the user had entered
C2_Witness ==
  /\ last_edit.w = "num"
  /\ runs = 2
  /\ \E k \in DOMAIN before.point_data :
       /\ k # last_edit.i
       /\ before.point_data[k] # FreshSite(k)
       /\ point_data[k] = before.point_data[k]
  /\ Len(point_data[last_edit.i].depths)
       # Len(before.point_data[last_edit.i].depths)

\* C3: the composite is produced only when every site 0..N-1 has at least one
\* depth; on a session state where some site's depths are empty the
\* visualization tab shows the placeholder, builds no figure and takes no
\* maximum of an empty list (which would raise)
C3_CompositeOnlyWithDepths ==
  /\ view = "composite" =>
       \A i \in 0 .. (num_points - 1) : Len(point_data[i].depths) > 0
  /\ (runs = 1 /\ \E i \in 0 .. (num_points - 1) :
                    Len(point_data[i].depths) = 0)
       => view = "placeholder" /\ ~fig.built
  /\ view # "exception"

\* the tab shown on a study where one site has depths and another has none
C3_Witness ==
  /\ view = "placeholder"
  /\ \E i, k \in 0 .. (num_points - 1) :
       Len(point_data[i].depths) = 0 /\ Len(point_data[k].depths) > 0

C5_StoredValuesInRange ==
  \A i \in DOMAIN point_data :
    /\ \A k \in DOMAIN point_data[i].distances :
         /\ QLe(Zero, point_data[i].distances[k])
         /\ QLe(point_data[i].distances[k], point_data[i].width)
    /\ \A k \in DOMAIN point_data[i].depths :
         /\ QLe(Zero, point_data[i].depths[k])
         /\ QLe(point_data[i].depths[k], <<10, 1>>)

\* C6: in a rendered study of two sites or more, a site whose measurement
\* points have fewer than 2 distinct distances gets the flat profile: the
\* figure is built and the site's row is minus its first depth at every one
\* of the M positions
C6_DegenerateFallsBackFlat ==
  (runs = 1 /\ num_points >= 2) =>
    \A i \in 0 .. (num_points - 1) :
      Cardinality({point_data[i].distances[k] :
                     k \in DOMAIN point_data[i].distances}) < 2
        => /\ fig.built
           /\ \A k \in 1 .. num_interp_points :
                fig.river[1].z[i + 1][k]
                  = [tag |-> "num", v |-> QNeg(point_data[i].depths[1])]

\* C7: the river bed grids X, Y, Z have one row per site and M = 30 columns,
\* whatever the sites' point counts, and row i has site coordinate i in every
\* column
C7_RiverBedGridShape ==
  (fig.built /\ num_points >= 2) =>
    /\ Len(fig.river[1].x) = num_points
    /\ Len(fig.river[1].y) = num_points
    /\ Len(fig.river[1].z) = num_points
    /\ \A r \in 1 .. num_points :
         /\ Len(fig.river[1].x[r]) = 30
         /\ Len(fig.river[1].y[r]) = 30
         /\ Len(fig.river[1].z[r]) = 30
         /\ \A k \in 1 .. 30 : fig.river[1].y[r][k] = r - 1

\* a river bed over sites of 2 and of 4 measured points
C7_Witness ==
  /\ fig.built
  /\ num_points >= 2
  /\ \E i, k \in 0 .. (num_points - 1) :
       Len(point_data[i].distances) = 2 /\ Len(point_data[k].distances) = 4

\* the number of table rows of the sites before site n
RECURSIVE RowsBefore(_, _)
RowsBefore(pd, n) ==
  IF n = 0 THEN 0 ELSE RowsBefore(pd, n - 1) + Len(pd[n - 1].distances)

\* C8: the table has the sum over all sites of len(distances) rows, sites in
\* ascending order and each site's points in ascending order; the row of
\* point j of site i carries Site Number i+1, Point Number j+1, distances[j]
\* and depths[j]
C8_TableRows ==
  fig.built =>
    /\ Len(fig.table) = RowsBefore(point_data, num_points)
    /\ \A i \in 0 .. (num_points - 1) :
         \A j \in 1 .. Len(point_data[i].distances) :
           /\ fig.table[RowsBefore(point_data, i) + j].site_number = i + 1
           /\ fig.table[RowsBefore(point_data, i) + j].point_number = j
           /\ fig.table[RowsBefore(point_data, i) + j].distance
                = point_data[i].distances[j]
           /\ fig.table[RowsBefore(point_data, i) + j].depth
                = point_data[i].depths[j]

\* the table of three sites with different point counts
C8_Witness ==
  /\ fig.built
  /\ num_points = 3
  /\ Len(point_data[0].distances) # Len(point_data[1].distances)
  /\ point_data[0].depths # point_data[1].depths
  /\ Len(fig.table) > 6

\* C9: the riverbed polyline of every site, in the preview and in the
\* all-cross-sections chart, is (distances[j], -depths[j]) in input order
C9_RiverbedInInputOrder ==
  /\ \A i \in DOMAIN previews :
       /\ previews[i].x = point_data[i].distances
       /\ DOMAIN previews[i].y = DOMAIN point_data[i].depths
       /\ \A k \in DOMAIN point_data[i].depths :
            previews[i].y[k] = QNeg(point_data[i].depths[k])
  /\ fig.built =>
       /\ Len(fig.sections) = num_points
       /\ \A i \in 0 .. (num_points - 1) :
            /\ fig.sections[i + 1].x = point_data[i].distances
            /\ DOMAIN fig.sections[i + 1].y = DOMAIN point_data[i].depths
            /\ \A k \in DOMAIN point_data[i].depths :
                 fig.sections[i + 1].y[k] = QNeg(point_data[i].depths[k])

\* a site measured from the far bank back, with depths that differ
C9_Witness ==
  /\ fig.built
  /\ 0 \in DOMAIN previews
  /\ QLt(point_data[0].distances[2], point_data[0].distances[1])
  /\ point_data[0].depths[1] # point_data[0].depths[2]

\* C10: the left bank strip of each pair (i, i+1) is 3 by 6; its first
\* column is x = 0, z = 0 and its last column x = 0, z = -1.2 times the
\* greater of the two sites' maximum depths; the bank reaches out to
\* bank_extension = 0.5 times the greatest width of all sites
C10_LeftBankGrid ==
  (fig.built /\ num_points >= 2) =>
    /\ Len(fig.left) = num_points - 1
    /\ fig.bank_extension
         = QMul(<<1, 2>>,
                SetMax({point_data[k].width : k \in 0 .. (num_points - 1)}))
    /\ \A i \in 1 .. (num_points - 1) :
         /\ Len(fig.left[i].x) = 3
         /\ Len(fig.left[i].z) = 3
         /\ \A r \in 1 .. 3 :
              /\ Len(fig.left[i].x[r]) = 6
              /\ Len(fig.left[i].z[r]) = 6
              /\ fig.left[i].x[r][1] = Zero
              /\ fig.left[i].z[r][1] = Zero
              /\ fig.left[i].x[r][6] = Zero
              /\ fig.left[i].z[r][6]
                   = QMul(<<-12, 10>>,
                          QMax(SeqMax(point_data[i - 1].depths),
                               SeqMax(point_data[i].depths)))
              /\ fig.left[i].x[r][3] = QNeg(fig.bank_extension)

\* three sites, the last one the deepest and the widest, so that the first
\* pair's floor is not the study's and the bank follows a site outside it
C10_Witness ==
  /\ fig.built
  /\ num_points = 3
  /\ QLt(QMax(SeqMax(point_data[0].depths), SeqMax(point_data[1].depths)),
         SeqMax(point_data[2].depths))
  /\ QLt(point_data[1].width, point_data[2].width)
  /\ QLt(Zero, SeqMax(point_data[0].depths))

\* C11: a run with the widget values unchanged leaves N and every site's
\* name, width, measurement count, distances and depths as they were and
\* requests no rerun
C11_RerunIdempotent ==
  (last_edit = NoEdit /\ steps > 0) =>
    /\ num_points = before.num_points
    /\ point_data = before.point_data
    /\ runs = 1
    /\ view # "rerun"

\* the script run again on a completed page whose first site holds a depth
\* the user entered
C11_Witness ==
  /\ last_edit = NoEdit
  /\ steps = 3
  /\ view = "composite"
  /\ \E k \in DOMAIN before.point_data[0].depths :
       before.point_data[0].depths[k] # Zero
  /\ point_data = before.point_data

\* C12: the water surface has N rows of M = 30 positions; row i runs evenly
\* from 0 to the width of site i itself, has site coordinate i and elevation
\* 0 at every position
C12_WaterSurface ==
  (fig.built /\ num_points >= 2) =>
    /\ Len(fig.water) = 1
    /\ Len(fig.water[1].x) = num_points
    /\ Len(fig.water[1].y) = num_points
    /\ Len(fig.water[1].z) = num_points
    /\ \A r \in 1 .. num_points :
         /\ Len(fig.water[1].x[r]) = 30
         /\ Len(fig.water[1].y[r]) = 30
         /\ Len(fig.water[1].z[r]) = 30
         /\ fig.water[1].x[r][1] = <<0, 1>>
         /\ fig.water[1].x[r][30] = point_data[r - 1].width
         /\ \A k \in 1 .. 30 :
              /\ fig.water[1].x[r][k]
                   = QMul(point_data[r - 1].width, Q(k - 1, 29))
              /\ fig.water[1].y[r][k] = r - 1
              /\ fig.water[1].z[r][k] = <<0, 1>>

\* a water surface over sites of different widths, the first one narrower
\* than the widest
C12_Witness ==
  /\ fig.built
  /\ num_points >= 2
  /\ QLt(point_data[0].width, fig.max_width)
  /\ fig.water[1].x[1][30] = point_data[0].width

\* C13: the 3-D figure has one marker per (distance, depth) pair of every
\* site, sites and points in ascending order, at (distance, site index,
\* -depth), and one label per site carrying the site's name at
\* x = max_width + bank_extension + 0.5, beyond the right bank, and at
\* elevation bank_height / 2 = 0.25
C13_MarkersAndLabels ==
  fig.built =>
    /\ Len(fig.markers) = RowsBefore(point_data, num_points)
    /\ \A i \in 0 .. (num_points - 1) :
         \A j \in 1 .. Len(point_data[i].distances) :
           fig.markers[RowsBefore(point_data, i) + j]
             = [x |-> point_data[i].distances[j], y |-> i,
                z |-> QNeg(point_data[i].depths[j])]
    /\ Len(fig.labels) = num_points
    /\ \A i \in 0 .. (num_points - 1) :
         /\ fig.labels[i + 1].text = point_data[i].point_name
         /\ fig.labels[i + 1].y = i
         /\ fig.labels[i + 1].z = <<1, 4>>
         /\ fig.labels[i + 1].x
              = QAdd(QAdd(fig.max_width, fig.bank_extension), <<1, 2>>)
         /\ \A k \in 0 .. (num_points - 1) :
              QLt(QAdd(point_data[k].width, fig.bank_extension),
                  fig.labels[i + 1].x)

\* markers and labels of three sites of different widths and point counts
C13_Witness ==
  /\ fig.built
  /\ num_points = 3
  /\ Len(fig.markers) = 9
  /\ Len(fig.labels) = 3
  /\ point_data[0].width # point_data[2].width
  /\ fig.markers[9].z # <<0, 1>>

\* C14: a change of N or of one site's measurement count is followed by
\* exactly one rerun, which runs to its end without asking for another; any
\* other interaction is a single run; no interaction ends with a rerun
\* outstanding (the chain never reaches the MaxRuns runs the model follows)
C14_OneRerunSettles ==
  /\ view # "rerun"
  /\ runs < MaxRuns
  /\ last_edit.w \in {"num_points", "num"} => runs = 2
  /\ last_edit.w \notin {"num_points", "num"} => runs = 1

\* the measurement count of the second of two sites changed, and the page
\* complete after the rerun
C14_Witness ==
  /\ last_edit.w = "num"
  /\ last_edit.i = 1
  /\ runs = 2
  /\ view = "composite"
  /\ DOMAIN previews = {0, 1}

\* the distances of a site strictly ascending in input order
Ascending(xs) == \A a \in 1 .. (Len(xs) - 1) : QLt(xs[a], xs[a + 1])

\* no distance of a site entered twice
Distinct(xs) == \A a, b \in DOMAIN xs : a # b => xs[a] # xs[b]

\* minus the line through the last two measured points of a site, taken at
\* the far bank x = width
LastSegmentAtWidth(site) ==
  QNeg(QAdd(site.depths[Len(site.depths)],
            QMul(QDiv(QSub(site.depths[Len(site.depths)],
                           site.depths[Len(site.depths) - 1]),
                      QSub(site.distances[Len(site.distances)],
                           site.distances[Len(site.distances) - 1])),
                 QSub(site.width, site.distances[Len(site.distances)]))))

\* C15: every site goes through the interpolant, cubic when it has more than
\* 3 measurement points and linear when it has 2 or 3; positions outside the
\* measured distances get a value by extrapolation (for the linear kind the
\* last segment's line, continued to the far bank) and nothing raises as
\* long as no distance is repeated
C15_InterpolantKind ==
  /\ (fig.built /\ num_points >= 2) =>
       \A i \in 0 .. (num_points - 1) :
         /\ fig.river[1].branch[i + 1] = "interp1d"
         /\ fig.river[1].kind[i + 1]
              = IF Len(point_data[i].distances) > 3 THEN "cubic" ELSE "linear"
         /\ Len(point_data[i].distances) > 3 =>
              \A k \in 1 .. 30 : fig.river[1].z[i + 1][k].tag = "spline"
         /\ (Len(point_data[i].distances) <= 3
               /\ Ascending(point_data[i].distances)) =>
              /\ \A k \in 1 .. 30 : fig.river[1].z[i + 1][k].tag = "num"
              /\ fig.river[1].z[i + 1][30].v = LastSegmentAtWidth(point_data[i])
  /\ (runs = 1 /\ num_points >= 2
        /\ \A i \in 0 .. (num_points - 1) : Distinct(point_data[i].distances))
       => fig.built

\* a site of 3 points measured over the near half only next to a site of 4
\* points: the linear one is continued past its last point to a depth that
\* was not measured
C15_Witness ==
  /\ fig.built
  /\ num_points >= 2
  /\ \E i, k \in 0 .. (num_points - 1) :
       /\ Len(point_data[i].distances) = 3
       /\ Ascending(point_data[i].distances)
       /\ QLt(point_data[i].distances[3], point_data[i].width)
       /\ fig.river[1].z[i + 1][30].v # QNeg(point_data[i].depths[3])
       /\ fig.river[1].kind[i + 1] = "linear"
       /\ Len(point_data[k].distances) = 4
       /\ fig.river[1].kind[k + 1] = "cubic"

\* C16: a change of a site's width alone stores the new width and leaves the
\* site's distances, depths, name and measurement count as they were, in a
\* single run; no interaction other than a change of N or of a measurement
\* count changes the length of a stored array
C16_WidthChangeFrame ==
  /\ last_edit.w = "width" =>
       /\ point_data[last_edit.i].width = last_edit.v
       /\ point_data[last_edit.i].distances
            = before.point_data[last_edit.i].distances
       /\ point_data[last_edit.i].depths
            = before.point_data[last_edit.i].depths
       /\ point_data[last_edit.i].point_name
            = before.point_data[last_edit.i].point_name
       /\ point_data[last_edit.i].num_measurements
            = before.point_data[last_edit.i].num_measurements
       /\ runs = 1
  /\ last_edit.w \notin {"num", "num_points"} =>
       \A k \in DOMAIN before.point_data :
         /\ Len(point_data[k].distances) = Len(before.point_data[k].distances)
         /\ Len(point_data[k].depths) = Len(before.point_data[k].depths)

\* a site widened after the user had entered a depth, the page complete
C16_Witness ==
  /\ last_edit.w = "width"
  /\ runs = 1
  /\ view = "composite"
  /\ QLt(before.point_data[last_edit.i].width, last_edit.v)
  /\ \E k \in DOMAIN point_data[last_edit.i].depths :
       point_data[last_edit.i].depths[k] # Zero

\* C17: when N > 0 and the run got to the visualization tab (every site tab
\* ran to its preview), the Study has an entry for every index 0..N-1 and
\* each entry has num_measurements >= 2 distances and as many depths, so the
\* guard of line 243 holds; the tab shows the composite, unless the spline
\* refused a repeated distance, and the placeholder is never shown
C17_GuardAlwaysTrue ==
  /\ view # "placeholder"
  /\ (num_points > 0 /\ DOMAIN previews = 0 .. (num_points - 1)) =>
       /\ \A i \in 0 .. (num_points - 1) :
            /\ i \in DOMAIN point_data
            /\ point_data[i].num_measurements >= 2
            /\ Len(point_data[i].depths) = point_data[i].num_measurements
            /\ Len(point_data[i].distances) = point_data[i].num_measurements
            /\ Len(point_data[i].depths) > 0
       /\ \/ view = "composite"
          \/ /\ view = "exception"
             /\ num_points >= 2
             /\ \E i \in 0 .. (num_points - 1) :
                  /\ Len(point_data[i].distances) > 3
                  /\ ~Distinct(point_data[i].distances)

\* the visualization tab reached with two sites after a depth of the second
\* site was entered
C17_Witness ==
  /\ num_points = 2
  /\ DOMAIN previews = {0, 1}
  /\ last_edit.w = "depth"
  /\ last_edit.i = 1
  /\ view = "composite"

\* C18: with exactly one site the figure is built and holds no river bed,
\* bank, bottom or water surface, only the site's markers and its label; with
\* two sites or more a built figure holds one river bed, one water surface
\* and N-1 left bank, N-1 right bank and N-1 bottom strips
C18_TraceCounts ==
  /\ (runs = 1 /\ num_points = 1) =>
       /\ fig.built
       /\ fig.river = <<>>
       /\ fig.water = <<>>
       /\ fig.left = <<>>
       /\ fig.right = <<>>
       /\ fig.bottom = <<>>
       /\ Len(fig.markers) = Len(point_data[0].distances)
       /\ Len(fig.labels) = 1
  /\ (fig.built /\ num_points >= 2) =>
       /\ Len(fig.river) = 1
       /\ Len(fig.water) = 1
       /\ Len(fig.left) = num_points - 1
       /\ Len(fig.right) = num_points - 1
       /\ Len(fig.bottom) = num_points - 1

\* the page of a study of one site with four measured points
C18_Witness ==
  /\ num_points = 1
  /\ fig.built
  /\ Len(fig.markers) = 4
  /\ fig.labels[1].text = point_data[0].point_name
  /\ fig.river = <<>>

====
